---- MODULE Spec2Model ----
(***************************************************************************)
(* BackendManager (pyqode.core.managers.backend): the controller that      *)
(* starts and stops the backend worker process and owns the list of        *)
(* per-request client sockets.                                             *)
(*                                                                         *)
(* The manager lives on the GUI thread: every method and every slot runs   *)
(* to completion before the next one starts, except that                   *)
(*   - a signal emitted inside a method calls its slots at once (the       *)
(*     `finished` signal of a socket calls _rm_socket while stop() is      *)
(*     still walking the list), and                                        *)
(*   - stop() blocks in a poll loop; the worker process, which is another  *)
(*     OS process, runs meanwhile.                                         *)
(* So stop() is modelled step by step (pc), and everything else as one     *)
(* action per method or slot.                                              *)
(*                                                                         *)
(* JsonTcpClient and BackendProcess (pyqode.core.api.client) are used by   *)
(* the manager but their code is not part of the sources at hand; what     *)
(* they do is taken from the specification (sections 4.5, 4.6 and 5).      *)
(***************************************************************************)
EXTENDS Integers, Sequences, FiniteSets, TLC

\* Bounds of the model.
MaxRequests == 2
MaxStarts == 2

VARIABLES
    platform,     \* sys.platform: "win32" or "posix"
    pid,          \* self._process: 0 is None, otherwise the id of the BackendProcess
    pstate,       \* self._process.state(): "NotRunning", "Starting", "Running"
    prevent,      \* self._process._prevent_logs
    observer,     \* error_callback is connected to self._process.error
    sockets,      \* self._sockets: a list of client ids
    clients,      \* every JsonTcpClient ever created, by id
    pc,           \* "idle": the event loop is free; "stop_test", "stop_signal": inside stop()
    cont,         \* the start() that is waiting for its own call of stop() to return
    alive,        \* the worker processes alive in the operating system
    stubborn,     \* the current worker does not react to a graceful termination request
    pendingSig,   \* the signal sent to the current worker and not yet acted upon
    listening,    \* the current worker has bound its port
    onErrorGiven, \* the last start() was given an error_callback
    wstate,       \* the lifecycle state of the worker (specification, section 3)
    osExit,       \* the exit status of the current worker (-1: it has not exited)
    lastOp,       \* the step that was taken last
    fired,        \* how often error_callback was invoked in the last step
    delivered,    \* the client whose on_receive was invoked in the last step (0: none)
    raised,       \* the exception raised in the last step ("": none)
    sig,          \* the call of kill()/terminate() made in the last step
    resp,         \* the Response a client obtained or synthesized in the last step
    wire,         \* one message on its way through the wire protocol
    frozen,       \* hasattr(sys, "frozen"): the application is a packaged binary
    port,         \* self._port (0: not set)
    config,       \* self.server_script, self.interpreter, self.args
    command,      \* program and arguments the current process object was started with
    editors,      \* the code edits ever added to the TabWidget: file.path and dirty
    tw,           \* the TabWidget: Qt's tabs and current index, self._widgets, self._current
    tlog,         \* the last operation on the TabWidget and the signals it emitted
    console,      \* the InteractiveConsole, its QProcess and the child process
    highlighter,  \* the PygmentsSH, its lexer and the blocks of its document
    matcher       \* the document of the SymbolMatcherMode and its last search

vars == <<platform, pid, pstate, prevent, observer, sockets, clients, pc, cont,
          alive, stubborn, pendingSig, listening, onErrorGiven, wstate, osExit,
          lastOp, fired, delivered, raised, sig, resp, wire,
          frozen, port, config, command, editors, tw, tlog,
          console, highlighter, matcher>>

\* The variables of the backend manager, its clients and its worker.
backendVars == <<platform, pid, pstate, prevent, observer, sockets, clients, pc, cont,
                 alive, stubborn, pendingSig, listening, onErrorGiven, wstate, osExit,
                 lastOp, fired, delivered, raised, sig, resp,
                 frozen, port, config, command>>

launchVars == <<frozen, port, config, command>>

tabVars == <<editors, tw, tlog>>

modeVars == <<console, highlighter, matcher>>

\* TabWidget.__init__: no tab (index -1 is Qt's "no tab"), no current editor
\* (0 is None), nothing emitted.
TabsIdle ==
    /\ editors = <<>>
    /\ tw = [tabs |-> <<>>, widgets |-> <<>>, idx |-> -1, cur |-> 0]
    /\ tlog = [op |-> "init", arg |-> 0, ret |-> 0, dialog |-> "none", closed |-> <<>>,
               last |-> 0, exc |-> ""]

\* InteractiveConsole.__init__ (live: the child processes alive), and a
\* PygmentsSH and a SymbolMatcherMode that have nothing to do.
ConsoleIdle ==
    [running |-> FALSE, program |-> "", args |-> <<>>, output |-> <<>>, user_stop |-> FALSE,
     qstate |-> "NotRunning", live |-> 0, op |-> "init"]
NotFound == [ran |-> TRUE, found |-> FALSE, block |-> 0, index |-> 0]

MatcherIdle(blocks) ==
    [blocks |-> blocks, op |-> "init", block |-> 0, cursor |-> 0,
     left |-> [NotFound EXCEPT !.ran = FALSE], right |-> [NotFound EXCEPT !.ran = FALSE]]

ModesIdle ==
    /\ console = ConsoleIdle
    /\ highlighter = [blocks |-> <<>>, prev_block |-> 0, op |-> "init", n |-> 0,
                      start |-> <<>>, exc |-> ""]
    /\ matcher = MatcherIdle(<<>>)

procVars == <<pid, pstate, prevent, observer, alive, stubborn, pendingSig,
              listening, onErrorGiven, wstate, osExit>>

\* Extra command line arguments: None, or a list of strings.
NoArgs == [given |-> FALSE, items |-> <<>>]
ArgList(items) == [given |-> TRUE, items |-> items]

NoStart == [pending |-> FALSE, onError |-> FALSE, launchable |-> FALSE, stubborn |-> FALSE,
            script |-> <<>>, interpreter |-> <<>>, args |-> NoArgs, pick |-> 0]
NoConfig == [server_script |-> <<>>, interpreter |-> <<>>, args |-> NoArgs]
NoCommand == [program |-> <<>>, pgm_args |-> <<>>]
NoSig == [kind |-> "none", state |-> "none"]

\* A Response (specification, section 3), with the client that holds it.
NoResp == [client |-> 0, status |-> "none", kind |-> "", message |-> "", payload |-> 0]
Ok(c, v) == [client |-> c, status |-> "ok", kind |-> "", message |-> "", payload |-> v]
Err(c, k, msg) == [client |-> c, status |-> "error", kind |-> k, message |-> msg, payload |-> 0]

\* The log of a step of start().
LogStart(op, r) ==
    /\ lastOp' = op
    /\ fired' = 0
    /\ delivered' = 0
    /\ raised' = r
    /\ sig' = NoSig
    /\ resp' = NoResp
    /\ wire' = wire
    /\ UNCHANGED <<tabVars, modeVars>>

LogAll(op, f, d, r, s, rs) ==
    /\ lastOp' = op
    /\ fired' = f
    /\ delivered' = d
    /\ raised' = r
    /\ sig' = s
    /\ resp' = rs
    /\ wire' = wire
    /\ UNCHANGED launchVars
    /\ UNCHANGED <<tabVars, modeVars>>

Log(op, f, d, r, s) == LogAll(op, f, d, r, s, NoResp)

Range(s) == {s[i] : i \in 1..Len(s)}

\* list.remove(x): drops the first occurrence of x.
RECURSIVE ListRemove(_, _)
ListRemove(list, x) ==
    IF list = <<>> THEN <<>>
    ELSE IF Head(list) = x THEN Tail(list)
    ELSE <<Head(list)>> \o ListRemove(Tail(list), x)

\* BackendManager.__init__
\* No message in the wire protocol.
WireIdle == [pc |-> "idle"]

\* The manager after construction.
InitBackend ==
    /\ platform \in {"win32", "posix"}
    /\ pid = 0
    /\ pstate = "NotRunning"
    /\ prevent = FALSE
    /\ observer = FALSE
    /\ sockets = <<>>
    /\ clients = <<>>
    /\ pc = "idle"
    /\ cont = NoStart
    /\ alive = {}
    /\ stubborn = FALSE
    /\ pendingSig = "none"
    /\ listening = FALSE
    /\ onErrorGiven = FALSE
    /\ wstate = "NOT_STARTED"
    /\ osExit = -1
    /\ lastOp = "init"
    /\ fired = 0
    /\ delivered = 0
    /\ raised = ""
    /\ sig = NoSig
    /\ resp = NoResp
    /\ port = 0
    /\ config = NoConfig
    /\ command = NoCommand

Init == InitBackend /\ frozen = FALSE /\ wire = WireIdle /\ TabsIdle /\ ModesIdle

\* A running property that only asks whether a process object exists.
running_processExists == pid /= 0

\* A running property that is false while the process is still starting.
running_onlyWhenStarted == pid /= 0 /\ pstate = "Running"

\* BackendManager.running
running == pid /= 0 /\ pstate /= "NotRunning"


\* self._process.exitCode(): the exit status the process object has noticed,
\* 0 as long as it has noticed none.
ProcExitCode == IF pstate = "NotRunning" /\ osExit /= -1 THEN osExit ELSE 0

\* The result of reading a property: the exception it raises ("": none) and
\* the value it returns ({}: None).
Returns(v) == [raised |-> "", value |-> v]
Raises(e) == [raised |-> e, value |-> {}]

\* An exit_code that hands the process's exit code out in every state.
exit_code_unguarded ==
    IF pid = 0 THEN Raises("AttributeError") ELSE Returns({ProcExitCode})

\* BackendManager.exit_code
exit_code ==
    IF running THEN Returns({})
    ELSE IF pid = 0 THEN Raises("AttributeError")
    ELSE Returns({ProcExitCode})

\* ---------------------------------------------------------------------------
\* BackendManager.send_request and the client sockets

\* send_request that only asks whether a process object exists.
Accepts_processExists == pid /= 0

\* send_request accepts a request only when the backend is running.
Accepts == running

\* send_request that forgets to hand the callback on.
ClientCallback_dropped(on_receive) == FALSE

\* The callback handed to the new JsonTcpClient (on_receive=on_receive).
ClientCallback(on_receive) == on_receive

\* send_request that hands no arguments on.
RequestArgs_none(args) == 0

\* The worker and the arguments handed to the new JsonTcpClient.
RequestWorker(worker_class_or_function) == worker_class_or_function
RequestArgs(args) == args

\* A new JsonTcpClient: it starts connecting to the port of the current worker.
\* `asked` and `given` keep what the caller passed to send_request.
NewClient(worker_class_or_function, args, on_receive) ==
    [st |-> "connecting", cb |-> ClientCallback(on_receive), given |-> on_receive,
     calls |-> 0, target |-> pid, port |-> port, cut |-> FALSE,
     handler |-> RequestWorker(worker_class_or_function), arg |-> RequestArgs(args),
     asked |-> [handler |-> worker_class_or_function, arg |-> args],
     frameOk |-> TRUE]

SendRequest(worker_class_or_function, args, on_receive) ==
    /\ pc = "idle"
    /\ IF ~Accepts
       THEN /\ UNCHANGED <<sockets, clients>>
            /\ Log("send_request", 0, 0, "NotRunning", NoSig)
       ELSE /\ Len(clients) < MaxRequests
            /\ clients' = Append(clients, NewClient(worker_class_or_function, args, on_receive))
            /\ sockets' = Append(sockets, Len(clients) + 1)
            /\ Log("send_request", 0, 0, "", NoSig)
    /\ UNCHANGED <<platform, procVars, pc, cont>>

\* A worker accepts connections for client c.
Listens(c) == clients[c].target \in alive /\ clients[c].target = pid /\ listening

\* A client completes: its callback, if still attached, is invoked once with
\* the response or with the synthetic error; the socket is closed; `finished`
\* is emitted, which calls _rm_socket(c) at once.
Complete(c, op, response) ==
    /\ clients' = [clients EXCEPT ![c].st = "closed",
                                  ![c].calls = IF clients[c].cb THEN @ + 1 ELSE @]
    /\ IF c \in Range(sockets)
       THEN /\ sockets' = ListRemove(sockets, c)
            /\ LogAll(op, 0, IF clients[c].cb THEN c ELSE 0, "", NoSig, response)
       ELSE /\ sockets' = sockets
            /\ LogAll(op, 0, IF clients[c].cb THEN c ELSE 0, "ValueError", NoSig, response)
    /\ UNCHANGED <<platform, procVars, pc, cont>>

\* The connection is up and the request frame is written; wellFormed tells
\* whether the frame that reaches the worker decodes.
ClientConnected(c, wellFormed) ==
    /\ pc = "idle"
    /\ clients[c].st = "connecting"
    /\ Listens(c)
    /\ clients' = [clients EXCEPT ![c].st = "connected", ![c].frameOk = wellFormed]
    /\ Log("client_connected", 0, 0, "", NoSig)
    /\ UNCHANGED <<platform, procVars, pc, cont, sockets>>

\* A client that tries again when the connection is refused.
OnConnectFailure_retry == "retry"

\* What a client does when it cannot connect.
OnConnectFailure == "report"

ClientConnectFailed(c) ==
    /\ pc = "idle"
    /\ clients[c].st = "connecting"
    /\ ~Listens(c)
    /\ IF OnConnectFailure = "report"
       THEN Complete(c, "client_connect_failed",
                     Err(c, "ConnectionFailed", "connection refused"))
       ELSE /\ Log("client_connect_failed", 0, 0, "", NoSig)
            /\ UNCHANGED <<platform, procVars, pc, cont, sockets, clients>>

\* The handlers of the worker: "echo" returns its argument, "boom" raises,
\* "hang" never returns; "nope" is not registered.
Registered == {"echo", "boom", "hang"}
Handlers == Registered \cup {"nope"}

\* A registry that treats every name as registered and echoes.
Dispatch_noLookup(c, name, arg) == Ok(c, arg)

\* A dispatch that lets the handler's exception through as a result.
Dispatch_noCatch(c, name, arg) ==
    IF name \notin Registered THEN Err(c, "UnknownHandler", name)
    ELSE Ok(c, arg)

\* HandlerRegistry.dispatch for connection c: the Response to a request for
\* handler `name` with argument `arg` (for a handler that returns or raises).
Dispatch(c, name, arg) ==
    IF name \notin Registered THEN Err(c, "UnknownHandler", name)
    ELSE IF name = "boom" THEN Err(c, "RuntimeError", "boom")
    ELSE Ok(c, arg)

\* A server that works on one connection at a time, in the order of arrival.
WorkerFree_serial(c) ==
    \A d \in 1..Len(clients) : d < c => clients[d].st /= "connected"

\* The worker serves every accepted connection without waiting for another.
WorkerFree(c) == TRUE

\* A server that lets a decoding failure end the process.
SurvivesBadFrame_no == FALSE

\* A frame that does not decode costs the worker its connection only.
SurvivesBadFrame == TRUE

\* The worker has decoded the request of c, dispatched it and written the
\* Response; the client reads it.
ClientResponse(c) ==
    /\ pc = "idle"
    /\ clients[c].st = "connected"
    /\ clients[c].target \in alive
    /\ clients[c].frameOk
    /\ clients[c].handler /= "hang"
    /\ WorkerFree(c)
    /\ Complete(c, "client_response", Dispatch(c, clients[c].handler, clients[c].arg))

ClientTransportError(c) ==
    /\ pc = "idle"
    /\ clients[c].st = "connected"
    /\ clients[c].target \notin alive
    /\ Complete(c, "client_transport_error", Err(c, "TransportError", "peer closed"))

\* The frame of c does not decode: the worker closes that connection, and
\* the client, which reads no Response, reports a transport error.
WorkerDrops(c) ==
    /\ pc = "idle"
    /\ clients[c].st = "connected"
    /\ clients[c].target \in alive
    /\ ~clients[c].frameOk
    /\ IF SurvivesBadFrame
       THEN Complete(c, "client_dropped", Err(c, "TransportError", "peer closed"))
       ELSE /\ alive' = alive \ {clients[c].target}
            /\ listening' = FALSE
            /\ osExit' = 1
            /\ Log("client_dropped", 0, 0, "", NoSig)
            /\ UNCHANGED <<platform, pid, pstate, prevent, observer, sockets, clients,
                           pc, cont, stubborn, pendingSig, onErrorGiven, wstate>>

\* ---------------------------------------------------------------------------
\* BackendManager.stop

\* `for socket in self._sockets: socket._callback = None; socket.close()`:
\* the list iterator holds an index into the list. The clients in `sync`
\* report completion while they are being closed, and _rm_socket takes them
\* out of the list the loop is walking. The result is the set of clients the
\* loop body ran for.
RECURSIVE WalkSockets(_, _, _, _)
WalkSockets(list, i, sync, visited) ==
    IF i > Len(list) THEN visited
    ELSE IF list[i] \in sync
         THEN WalkSockets(ListRemove(list, list[i]), i + 1, sync, visited \cup {list[i]})
         ELSE WalkSockets(list, i + 1, sync, visited \cup {list[i]})

\* stop() that leaves _prevent_logs as it is.
TeardownFlag_unset == prevent

\* The value stop() gives _prevent_logs before it signals the process.
TeardownFlag == TRUE

\* stop() up to its poll loop.
StopBegin ==
    \E sync \in SUBSET Range(sockets) :
        LET visited == WalkSockets(sockets, 1, sync, {})
        IN /\ clients' = [c \in 1..Len(clients) |->
                            IF c \in visited
                            THEN [clients[c] EXCEPT !.cb = FALSE, !.st = "closed", !.cut = TRUE]
                            ELSE IF c \in Range(sockets)
                                 THEN [clients[c] EXCEPT !.cut = TRUE]
                                 ELSE clients[c]]
           /\ sockets' = <<>>
           /\ prevent' = TeardownFlag
           /\ wstate' = "STOPPING"
           /\ pc' = "stop_test"

\* stop() that does not look whether a process was ever created.
NeverStarted_ignored == FALSE

\* `self._process is None`: start() was never called.
NeverStarted == pid = 0

Stop ==
    /\ pc = "idle"
    /\ IF NeverStarted
       THEN /\ UNCHANGED <<clients, sockets, prevent, pc, wstate>>
            /\ Log("stop_noop", 0, 0, "", NoSig)
       ELSE /\ StopBegin
            /\ Log("stop_begin", 0, 0, "", NoSig)
    /\ UNCHANGED <<platform, pid, pstate, observer, alive, stubborn, pendingSig,
                   listening, onErrorGiven, osExit, cont>>

\* A poll loop that gives up once a signal has been sent.
StopLoopExit_afterSignal == pstate = "NotRunning" \/ sig.kind /= "none"

\* The condition that ends the poll loop of stop().
StopLoopExit == pstate = "NotRunning"

\* Delivery of the process's error signal to the observer of start().
ErrorDelivered == IF observer /\ ~prevent THEN 1 ELSE 0

\* `while state() != NotRunning: waitForFinished(1)`: the wait lets the process
\* object notice that the process has started or is gone.
StopWait ==
    /\ pc = "stop_test"
    /\ ~StopLoopExit
    /\ IF pid \notin alive
       THEN /\ pstate' = "NotRunning"
            /\ Log("stop_wait", ErrorDelivered, 0, "", NoSig)
       ELSE /\ pstate' \in {pstate, "Running"}
            /\ Log("stop_wait", 0, 0, "", NoSig)
    /\ pc' = "stop_signal"
    /\ UNCHANGED <<platform, pid, prevent, observer, sockets, clients, cont, alive,
                   stubborn, pendingSig, listening, onErrorGiven, wstate, osExit>>

\* A loop that asks for graceful termination on every platform.
TermSignal_alwaysTerminate == "term"

\* The request stop() sends in each round of its loop.
TermSignal == IF platform = "win32" THEN "kill" ELSE "term"

StopSignal ==
    /\ pc = "stop_signal"
    /\ pendingSig' = IF pid \notin alive THEN pendingSig
                     ELSE IF pendingSig = "kill" THEN "kill" ELSE TermSignal
    /\ pc' = "stop_test"
    /\ Log("stop_signal", 0, 0, "", [kind |-> TermSignal, state |-> pstate])
    /\ UNCHANGED <<platform, pid, pstate, prevent, observer, sockets, clients, cont,
                   alive, stubborn, listening, onErrorGiven, wstate, osExit>>

\* The loop is over: stop() returns, to the event loop or into start().
StopReturn ==
    /\ pc = "stop_test"
    /\ StopLoopExit
    /\ prevent' = FALSE
    /\ pc' = IF cont.pending THEN "start_rest" ELSE "idle"
    /\ wstate' = "STOPPED"
    /\ Log("stop_return", 0, 0, "", NoSig)
    /\ UNCHANGED <<platform, pid, pstate, observer, sockets, clients, cont, alive,
                   stubborn, pendingSig, listening, onErrorGiven, osExit>>

\* ---------------------------------------------------------------------------
\* BackendManager.start

\* start() that never stops the backend that is running.
MustStopFirst_never == FALSE

\* start() stops a backend that is running before it starts the new one.
MustStopFirst == running

\* start() that does not connect the error callback.
ConnectObserver_missing(error_callback) == FALSE

\* The observer of the new process: `if error_callback: error.connect(...)`.
ConnectObserver(error_callback) == error_callback

\* A script path is a sequence of parts; ".py" and ".pyc" are parts of their own.
\* `script.replace('.pyc', '.py')` replaces every occurrence.
BackendScript(script) ==
    [i \in 1..Len(script) |-> IF script[i] = ".pyc" THEN ".py" ELSE script[i]]

EndsWithPy(path) == path /= <<>> /\ path[Len(path)] = ".py"

\* The elements of a command line.
PathArg(path) == [kind |-> "path", path |-> path, port |-> 0, text |-> ""]
PortArg(p) == [kind |-> "port", path |-> <<>>, port |-> p, text |-> ""]
TextArg(t) == [kind |-> "text", path |-> <<>>, port |-> 0, text |-> t]

\* A launch that drops the extra arguments of a packaged backend.
ExtraArgs_notWhenDirect(direct, args) ==
    IF direct THEN <<>> ELSE [i \in 1..Len(args.items) |-> TextArg(args.items[i])]

\* `if args: pgm_args += args`
ExtraArgs(direct, args) ==
    IF args.given /\ args.items /= <<>>
    THEN [i \in 1..Len(args.items) |-> TextArg(args.items[i])]
    ELSE <<>>

\* A launch that always goes through the interpreter.
DirectLaunch_never(backend_script) == FALSE

\* `hasattr(sys, "frozen") and not backend_script.endswith('.py')`
DirectLaunch(backend_script) == frozen /\ ~EndsWithPy(backend_script)

\* program and pgm_args of start().
CommandLine(script, interpreter, args, p) ==
    LET backend_script == BackendScript(script)
        direct == DirectLaunch(backend_script)
    IN  IF direct
        THEN [program |-> backend_script,
              pgm_args |-> <<PortArg(p)>> \o ExtraArgs(direct, args)]
        ELSE [program |-> interpreter,
              pgm_args |-> <<PathArg(backend_script), PortArg(p)>> \o ExtraArgs(direct, args)]

\* The ports pick_free_port can return.
Ports == {5001, 5002}

\* The new BackendProcess and its start(program, pgm_args).
Spawn(error_callback, launchable, stub) ==
    /\ pid' = pid + 1
    /\ pstate' = "Starting"
    /\ prevent' = FALSE
    /\ observer' = ConnectObserver(error_callback)
    /\ alive' = IF launchable THEN alive \cup {pid + 1} ELSE alive
    /\ stubborn' = stub
    /\ pendingSig' = "none"
    /\ listening' = FALSE
    /\ onErrorGiven' = error_callback
    /\ wstate' = "RUNNING"
    /\ osExit' = -1

\* start() from the assignment of server_script on: pick is the port the
\* operating system hands out, 0 when binding the test socket fails.
Launch(op, error_callback, launchable, stub, script, interpreter, args, pick) ==
    /\ config' = [server_script |-> script, interpreter |-> interpreter, args |-> args]
    /\ frozen' = frozen
    /\ IF pick = 0
       THEN /\ LogStart(op, "socket.error")
            /\ UNCHANGED <<port, command, procVars>>
       ELSE /\ port' = pick
            /\ command' = CommandLine(script, interpreter, args, pick)
            /\ Spawn(error_callback, launchable, stub)
            /\ LogStart(op, "")

Start(error_callback, launchable, stub, script, interpreter, args, pick) ==
    /\ pc = "idle"
    /\ pid < MaxStarts
    /\ IF MustStopFirst
       THEN /\ StopBegin
            /\ cont' = [pending |-> TRUE, onError |-> error_callback,
                        launchable |-> launchable, stubborn |-> stub,
                        script |-> script, interpreter |-> interpreter,
                        args |-> args, pick |-> pick]
            /\ Log("stop_begin", 0, 0, "", NoSig)
            /\ UNCHANGED <<pid, pstate, observer, alive, stubborn, pendingSig,
                           listening, onErrorGiven, osExit>>
       ELSE /\ Launch("start", error_callback, launchable, stub,
                      script, interpreter, args, pick)
            /\ UNCHANGED <<sockets, clients, pc, cont>>
    /\ UNCHANGED platform

\* start() after its own call of stop() has returned.
StartRest ==
    /\ pc = "start_rest"
    /\ Launch("restart", cont.onError, cont.launchable, cont.stubborn,
              cont.script, cont.interpreter, cont.args, cont.pick)
    /\ cont' = NoStart
    /\ pc' = "idle"
    /\ UNCHANGED <<platform, sockets, clients>>

\* ---------------------------------------------------------------------------
\* The process object in the event loop, and the worker process itself

\* The process object reports that the worker has started.
ProcStarted ==
    /\ pc = "idle"
    /\ pstate = "Starting"
    /\ pid \in alive
    /\ pstate' = "Running"
    /\ Log("proc_started", 0, 0, "", NoSig)
    /\ UNCHANGED <<platform, pid, prevent, observer, sockets, clients, pc, cont,
                   alive, stubborn, pendingSig, listening, onErrorGiven, wstate, osExit>>

\* The process object reports that the worker could not be launched or has
\* exited without being asked to: the error signal reaches the observer.
ProcError ==
    /\ pc = "idle"
    /\ pid /= 0
    /\ pid \notin alive
    /\ pstate /= "NotRunning"
    /\ pstate' = "NotRunning"
    /\ wstate' = "CRASHED"
    /\ Log("proc_error", ErrorDelivered, 0, "", NoSig)
    /\ UNCHANGED <<platform, pid, prevent, observer, sockets, clients, pc, cont,
                   alive, stubborn, pendingSig, listening, onErrorGiven, osExit>>

\* The worker binds its port.
WorkerBind ==
    /\ pid \in alive
    /\ ~listening
    /\ listening' = TRUE
    /\ Log("env", 0, 0, "", NoSig)
    /\ UNCHANGED <<platform, pid, pstate, prevent, observer, sockets, clients, pc,
                   cont, alive, stubborn, pendingSig, onErrorGiven, wstate, osExit>>

\* The worker process ends with the exit status its runtime assigns.
WorkerGone(status) ==
    /\ alive' = alive \ {pid}
    /\ pendingSig' = "none"
    /\ listening' = FALSE
    /\ osExit' = status
    /\ Log("env", 0, 0, "", NoSig)
    /\ UNCHANGED <<platform, pid, pstate, prevent, observer, sockets, clients, pc,
                   cont, stubborn, onErrorGiven, wstate>>

\* The worker dies on its own (a crash, or a kill from outside).
WorkerCrash ==
    /\ pid \in alive
    /\ WorkerGone(1)

\* The worker exits because of the signal stop() sent: always on a kill, on a
\* graceful termination request only when the worker reacts to it.
WorkerKilled ==
    /\ pid \in alive
    /\ \/ pendingSig = "kill"
       \/ pendingSig = "term" /\ ~stubborn
    /\ WorkerGone(IF pendingSig = "kill" THEN 9 ELSE 15)

\* The worker programs start() is tried with: one that cannot be launched,
\* one that exits when asked to, one that ignores the request.
Workers ==
    {[launchable |-> FALSE, stubborn |-> FALSE],
     [launchable |-> TRUE, stubborn |-> FALSE],
     [launchable |-> TRUE, stubborn |-> TRUE]}

\* One way to start the backend: a source script run by an interpreter.
PlainScript == <<"server", ".py">>
Python == <<"python">>

Next ==
    \/ \E cb \in BOOLEAN : SendRequest("echo", 1, cb)
    \/ \E c \in 1..Len(clients) : ClientConnected(c, TRUE)
    \/ \E c \in 1..Len(clients) : ClientConnectFailed(c)
    \/ \E c \in 1..Len(clients) : ClientResponse(c)
    \/ \E c \in 1..Len(clients) : ClientTransportError(c)
    \/ Stop
    \/ StopWait
    \/ StopSignal
    \/ StopReturn
    \/ \E e \in BOOLEAN, w \in Workers :
          Start(e, w.launchable, w.stubborn, PlainScript, Python, NoArgs, 5001)
    \/ StartRest
    \/ ProcStarted
    \/ ProcError
    \/ WorkerBind
    \/ WorkerCrash
    \/ WorkerKilled

Spec == Init /\ [][Next]_vars

\* The process lifecycle alone: the manager without requests in flight.
LifecycleNext ==
    \/ Stop
    \/ StopWait
    \/ StopSignal
    \/ StopReturn
    \/ \E e \in BOOLEAN, w \in Workers :
          Start(e, w.launchable, w.stubborn, PlainScript, Python, NoArgs, 5001)
    \/ StartRest
    \/ ProcStarted
    \/ ProcError
    \/ WorkerBind
    \/ WorkerCrash
    \/ WorkerKilled

\* The poll loop of stop() keeps running, and the operating system delivers
\* the signals it sends.
LifecycleFairSpec ==
    /\ Init
    /\ [][LifecycleNext]_vars
    /\ WF_vars(StopWait)
    /\ WF_vars(StopSignal)
    /\ WF_vars(StopReturn)
    /\ WF_vars(WorkerKilled)

\* ---------------------------------------------------------------------------
\* The ways to launch the backend: source, compiled and packaged scripts, with
\* and without extra arguments, from a plain and from a packaged application,
\* with a port or without one to be had.

Scripts == {<<"server", ".py">>, <<"server", ".pyc">>, <<"server", ".exe">>}
ExtraArgLists == {NoArgs, ArgList(<<>>), ArgList(<<"--log", "x">>)}

LaunchInit ==
    /\ InitBackend
    /\ platform = "posix"
    /\ frozen \in BOOLEAN
    /\ wire = WireIdle
    /\ TabsIdle
    /\ ModesIdle

LaunchNext ==
    \/ \E s \in Scripts, a \in ExtraArgLists, p \in Ports \cup {0} :
          Start(FALSE, TRUE, FALSE, s, Python, a, p)
    \/ StartRest
    \/ SendRequest("echo", 1, FALSE)
    \/ StopWait
    \/ StopSignal
    \/ StopReturn
    \/ WorkerKilled

LaunchSpec == LaunchInit /\ [][LaunchNext]_vars

\* ---------------------------------------------------------------------------
\* Requests against one worker: the manager right after start() has returned,
\* with callers that ask for every kind of handler.

ArgValues == {1, 2}

DispatchInit ==
    /\ platform = "posix"
    /\ pid = 1
    /\ pstate = "Starting"
    /\ prevent = FALSE
    /\ observer = FALSE
    /\ sockets = <<>>
    /\ clients = <<>>
    /\ pc = "idle"
    /\ cont = NoStart
    /\ alive = {1}
    /\ stubborn = FALSE
    /\ pendingSig = "none"
    /\ listening = FALSE
    /\ onErrorGiven = FALSE
    /\ wstate = "RUNNING"
    /\ osExit = -1
    /\ lastOp = "start"
    /\ fired = 0
    /\ delivered = 0
    /\ raised = ""
    /\ sig = NoSig
    /\ resp = NoResp
    /\ wire = WireIdle
    /\ TabsIdle
    /\ ModesIdle
    /\ frozen = FALSE
    /\ port = 5001
    /\ config = [server_script |-> PlainScript, interpreter |-> Python, args |-> NoArgs]
    /\ command = CommandLine(PlainScript, Python, NoArgs, 5001)

DispatchNext ==
    \/ \E h \in Handlers, a \in ArgValues, cb \in BOOLEAN : SendRequest(h, a, cb)
    \/ \E c \in 1..Len(clients), ok \in BOOLEAN : ClientConnected(c, ok)
    \/ \E c \in 1..Len(clients) : ClientConnectFailed(c)
    \/ \E c \in 1..Len(clients) : ClientResponse(c)
    \/ \E c \in 1..Len(clients) : WorkerDrops(c)
    \/ ProcStarted
    \/ WorkerBind

DispatchSpec == DispatchInit /\ [][DispatchNext]_vars

\* The same with well-formed frames only, and a worker that keeps serving
\* the connections it is free to serve.
ServiceNext ==
    \/ \E h \in Handlers : SendRequest(h, 1, TRUE)
    \/ \E c \in 1..Len(clients) : ClientConnected(c, TRUE)
    \/ \E c \in 1..Len(clients) : ClientConnectFailed(c)
    \/ \E c \in 1..Len(clients) : ClientResponse(c)
    \/ ProcStarted
    \/ WorkerBind

ServiceFairSpec ==
    /\ DispatchInit
    /\ [][ServiceNext]_vars
    /\ \A c \in 1..MaxRequests : WF_vars(c \in 1..Len(clients) /\ ClientResponse(c))

\* ---------------------------------------------------------------------------
\* The wire protocol: a JSON document in UTF-8 behind a 4-byte big-endian
\* length. Text is a sequence of code points, a frame a sequence of bytes.

MaxDepth == 2

\* JSON values
Null == [t |-> "null", b |-> FALSE, n |-> 0, cs |-> <<>>, items |-> <<>>, members |-> <<>>]
Bool(b) == [Null EXCEPT !.t = "bool", !.b = b]
Num(n) == [Null EXCEPT !.t = "num", !.n = n]
Str(cs) == [Null EXCEPT !.t = "str", !.cs = cs]
Arr(items) == [Null EXCEPT !.t = "arr", !.items = items]
Obj(members) == [Null EXCEPT !.t = "obj", !.members = members]
Member(k, val) == [k |-> k, v |-> val]

\* Scalars, among them a string with a two-byte character and one with the
\* characters the serializer must escape (" and \).
Atoms ==
    {Null, Bool(FALSE), Bool(TRUE), Num(0), Num(-12),
     Str(<<>>), Str(<<233>>), Str(<<34, 92, 97>>)}

Fillers == {Num(-12), Str(<<233>>)}
Keys == {<<107>>, <<34, 233>>}

\* Arrays and objects around the values of the level below.
Values(d) ==
    LET Build[n \in 0..d] ==
            IF n = 0 THEN Atoms
            ELSE LET below == Build[n - 1]
                 IN  below
                     \cup {Arr(<<>>), Obj(<<>>)}
                     \cup {Arr(<<x>>) : x \in below}
                     \cup {Arr(<<x, f>>) : x \in below, f \in Fillers}
                     \cup {Obj(<<Member(k, x)>>) : k \in Keys, x \in below}
                     \cup {Obj(<<Member(<<107>>, x), Member(<<34, 233>>, f)>>) :
                              x \in below, f \in Fillers}
    IN  Build[d]

RECURSIVE Digits(_)
Digits(n) == IF n < 10 THEN <<48 + n>> ELSE Digits(n \div 10) \o <<48 + (n % 10)>>

NumText(n) == IF n < 0 THEN <<45>> \o Digits(0 - n) ELSE Digits(n)

\* The characters of a string with " and \ escaped by a backslash.
RECURSIVE Escape(_)
Escape(cs) ==
    IF cs = <<>> THEN <<>>
    ELSE (IF Head(cs) \in {34, 92} THEN <<92, Head(cs)>> ELSE <<Head(cs)>>)
         \o Escape(Tail(cs))

StrText(cs) == <<34>> \o Escape(cs) \o <<34>>

\* The JSON document of a value.
RECURSIVE JsonText(_)
JsonText(val) ==
    LET Items[i \in 0..Len(val.items)] ==
            IF i = 0 THEN <<>>
            ELSE Items[i - 1] \o (IF i > 1 THEN <<44>> ELSE <<>>)
                 \o JsonText(val.items[i])
        Members[i \in 0..Len(val.members)] ==
            IF i = 0 THEN <<>>
            ELSE Members[i - 1] \o (IF i > 1 THEN <<44>> ELSE <<>>)
                 \o StrText(val.members[i].k) \o <<58>> \o JsonText(val.members[i].v)
    IN  CASE val.t = "null" -> <<110, 117, 108, 108>>
          [] val.t = "bool" -> IF val.b THEN <<116, 114, 117, 101>>
                                        ELSE <<102, 97, 108, 115, 101>>
          [] val.t = "num" -> NumText(val.n)
          [] val.t = "str" -> StrText(val.cs)
          [] val.t = "arr" -> <<91>> \o Items[Len(val.items)] \o <<93>>
          [] val.t = "obj" -> <<123>> \o Members[Len(val.members)] \o <<125>>

\* UTF-8 of a text with code points below 2048.
RECURSIVE Utf8(_)
Utf8(text) ==
    IF text = <<>> THEN <<>>
    ELSE (IF Head(text) < 128 THEN <<Head(text)>>
          ELSE <<192 + (Head(text) \div 64), 128 + (Head(text) % 64)>>)
         \o Utf8(Tail(text))

\* The text of a byte sequence, or no text when it is not UTF-8.
RECURSIVE Utf8Decode(_, _, _)
Utf8Decode(bytes, i, acc) ==
    IF i > Len(bytes) THEN [ok |-> TRUE, text |-> acc]
    ELSE IF bytes[i] < 128 THEN Utf8Decode(bytes, i + 1, Append(acc, bytes[i]))
    ELSE IF /\ bytes[i] \in 194..223
            /\ i + 1 <= Len(bytes)
            /\ bytes[i + 1] \in 128..191
         THEN Utf8Decode(bytes, i + 2,
                         Append(acc, (bytes[i] - 192) * 64 + (bytes[i + 1] - 128)))
    ELSE [ok |-> FALSE, text |-> <<>>]

\* A header that counts the characters of the document.
PayloadLength_chars(text, bytes) == Len(text)

\* The number the header announces: the bytes of the payload.
PayloadLength(text, bytes) == Len(bytes)

Header(n) ==
    <<(n \div 16777216) % 256, (n \div 65536) % 256, (n \div 256) % 256, n % 256>>

HeaderValue(h) == ((h[1] * 256 + h[2]) * 256 + h[3]) * 256 + h[4]

\* WireProtocol.encode
Encode(val) ==
    LET text == JsonText(val)
        bytes == Utf8(text)
    IN  Header(PayloadLength(text, bytes)) \o bytes

\* The JSON parser: each function returns the value read and the position
\* behind it, or a failure.
Fail == [ok |-> FALSE, v |-> Null, i |-> 0]
Read(val, i) == [ok |-> TRUE, v |-> val, i |-> i]

Has(text, i, word) ==
    /\ i + Len(word) - 1 <= Len(text)
    /\ SubSeq(text, i, i + Len(word) - 1) = word

RECURSIVE ParseChars(_, _, _)
ParseChars(text, i, acc) ==
    IF i > Len(text) THEN Fail
    ELSE IF text[i] = 34 THEN Read(Str(acc), i + 1)
    ELSE IF text[i] = 92
         THEN IF i + 1 <= Len(text) /\ text[i + 1] \in {34, 92}
              THEN ParseChars(text, i + 2, Append(acc, text[i + 1]))
              ELSE Fail
    ELSE IF text[i] < 32 THEN Fail
    ELSE ParseChars(text, i + 1, Append(acc, text[i]))

RECURSIVE ParseDigits(_, _, _)
ParseDigits(text, i, n) ==
    IF i <= Len(text) /\ text[i] \in 48..57
    THEN ParseDigits(text, i + 1, 10 * n + (text[i] - 48))
    ELSE Read(Num(n), i)

ParseNumber(text, i) ==
    LET neg == text[i] = 45
        from == IF neg THEN i + 1 ELSE i
        r == ParseDigits(text, from, 0)
    IN  IF r.i = from THEN Fail
        ELSE IF text[from] = 48 /\ r.i > from + 1 THEN Fail
        ELSE IF neg THEN Read(Num(0 - r.v.n), r.i) ELSE r

RECURSIVE ParseValue(_, _), ParseItems(_, _, _), ParseMembers(_, _, _)
ParseValue(text, i) ==
    IF i > Len(text) THEN Fail
    ELSE CASE text[i] = 110 ->
                  IF Has(text, i, <<110, 117, 108, 108>>) THEN Read(Null, i + 4) ELSE Fail
           [] text[i] = 116 ->
                  IF Has(text, i, <<116, 114, 117, 101>>) THEN Read(Bool(TRUE), i + 4)
                  ELSE Fail
           [] text[i] = 102 ->
                  IF Has(text, i, <<102, 97, 108, 115, 101>>) THEN Read(Bool(FALSE), i + 5)
                  ELSE Fail
           [] text[i] = 34 -> ParseChars(text, i + 1, <<>>)
           [] text[i] = 45 \/ text[i] \in 48..57 -> ParseNumber(text, i)
           [] text[i] = 91 ->
                  IF Has(text, i + 1, <<93>>) THEN Read(Arr(<<>>), i + 2)
                  ELSE ParseItems(text, i + 1, <<>>)
           [] text[i] = 123 ->
                  IF Has(text, i + 1, <<125>>) THEN Read(Obj(<<>>), i + 2)
                  ELSE ParseMembers(text, i + 1, <<>>)
           [] OTHER -> Fail

ParseItems(text, i, acc) ==
    LET r == ParseValue(text, i)
    IN  IF ~r.ok \/ r.i > Len(text) THEN Fail
        ELSE IF text[r.i] = 44 THEN ParseItems(text, r.i + 1, Append(acc, r.v))
        ELSE IF text[r.i] = 93 THEN Read(Arr(Append(acc, r.v)), r.i + 1)
        ELSE Fail

ParseMembers(text, i, acc) ==
    IF ~Has(text, i, <<34>>) THEN Fail
    ELSE LET k == ParseChars(text, i + 1, <<>>)
         IN  IF ~k.ok \/ ~Has(text, k.i, <<58>>) THEN Fail
             ELSE LET r == ParseValue(text, k.i + 1)
                      all == Append(acc, Member(k.v.cs, r.v))
                  IN  IF ~r.ok \/ r.i > Len(text) THEN Fail
                      ELSE IF text[r.i] = 44 THEN ParseMembers(text, r.i + 1, all)
                      ELSE IF text[r.i] = 125 THEN Read(Obj(all), r.i + 1)
                      ELSE Fail

Malformed == [ok |-> FALSE, error |-> "MalformedMessage", v |-> Null]

\* WireProtocol.decode
Decode(frame) ==
    IF Len(frame) < 4 THEN Malformed
    ELSE LET payload == SubSeq(frame, 5, Len(frame))
         IN  IF Len(payload) /= HeaderValue(SubSeq(frame, 1, 4)) THEN Malformed
             ELSE LET u == Utf8Decode(payload, 1, <<>>)
                      r == ParseValue(u.text, 1)
                  IN  IF ~u.ok THEN Malformed
                      ELSE IF ~r.ok \/ r.i /= Len(u.text) + 1 THEN Malformed
                      ELSE [ok |-> TRUE, error |-> "", v |-> r.v]

\* Two JSON values are equivalent: the same scalars, arrays equivalent item by
\* item, objects equivalent key by key.
RECURSIVE JsonEq(_, _)
JsonEq(a, b) ==
    /\ a.t = b.t
    /\ CASE a.t = "arr" ->
              /\ Len(a.items) = Len(b.items)
              /\ \A i \in 1..Len(a.items) : JsonEq(a.items[i], b.items[i])
         [] a.t = "obj" ->
              /\ {a.members[i].k : i \in 1..Len(a.members)}
                    = {b.members[j].k : j \in 1..Len(b.members)}
              /\ \A i \in 1..Len(a.members) : \A j \in 1..Len(b.members) :
                    a.members[i].k = b.members[j].k
                        => JsonEq(a.members[i].v, b.members[j].v)
         [] OTHER -> a = b

\* Ways a frame arrives damaged: without a complete header, shorter than
\* announced, or with a payload that is not a JSON document.
Damages == {"header", "short", "json"}

Damaged(frame, how) ==
    CASE how = "header" -> SubSeq(frame, 1, 3)
      [] how = "short" -> SubSeq(frame, 1, Len(frame) - 1)
      [] how = "json" -> SubSeq(frame, 1, Len(frame) - 1) \o <<44>>

WireInit ==
    /\ InitBackend
    /\ TabsIdle
    /\ ModesIdle
    /\ frozen = FALSE
    /\ platform = "posix"
    /\ \E val \in Values(MaxDepth) :
          wire = [pc |-> "message", value |-> val, frame |-> <<>>, damaged |-> FALSE,
                  out |-> Malformed, again |-> <<>>]

WireEncode ==
    /\ wire.pc = "message"
    /\ wire' = [wire EXCEPT !.pc = "framed", !.frame = Encode(wire.value)]
    /\ UNCHANGED <<backendVars, tabVars, modeVars>>

WireDamage(how) ==
    /\ wire.pc = "framed"
    /\ ~wire.damaged
    /\ wire' = [wire EXCEPT !.damaged = TRUE, !.frame = Damaged(wire.frame, how)]
    /\ UNCHANGED <<backendVars, tabVars, modeVars>>

WireDecode ==
    /\ wire.pc = "framed"
    /\ wire' = [wire EXCEPT !.pc = "decoded", !.out = Decode(wire.frame)]
    /\ UNCHANGED <<backendVars, tabVars, modeVars>>

WireReencode ==
    /\ wire.pc = "decoded"
    /\ wire.out.ok
    /\ wire' = [wire EXCEPT !.pc = "reframed", !.again = Encode(wire.out.v)]
    /\ UNCHANGED <<backendVars, tabVars, modeVars>>

WireNext ==
    \/ WireEncode
    \/ \E how \in Damages : WireDamage(how)
    \/ WireDecode
    \/ WireReencode

WireSpec == WireInit /\ [][WireNext]_vars

\* ---------------------------------------------------------------------------
\* TabWidget: a QTabWidget of code edits. Editors are numbered from 1 and 0 is
\* None; tab indices are Qt's and Python's (from 0, -1 for "none").

MaxEditors == 3

\* The files the editors open; 0 stands for None.
Paths == {1, 2}

RemoveAt(list, k) == SubSeq(list, 1, k - 1) \o SubSeq(list, k + 1, Len(list))

\* Python's list[i] and list.pop(i): negative indices count from the end.
PyValid(list, i) == i \in (0 - Len(list))..(Len(list) - 1)
PyPos(list, i) == IF i >= 0 THEN i + 1 ELSE Len(list) + i + 1

\* QTabWidget.indexOf
IndexOf(list, w) ==
    IF \E k \in 1..Len(list) : list[k] = w
    THEN (CHOOSE k \in 1..Len(list) : list[k] = w /\ \A j \in 1..(k - 1) : list[j] /= w) - 1
    ELSE -1

\* The TabWidget and its editors when an operation begins: nothing emitted
\* (closed: tab_closed, last: last_tab_closed), no exception.
Now ==
    [ed |-> editors, tabs |-> tw.tabs, widgets |-> tw.widgets, idx |-> tw.idx, cur |-> tw.cur,
     closed |-> <<>>, last |-> 0, exc |-> ""]

\* _on_current_changed: an exception in the slot is reported and the emitter
\* carries on.
OnCurrentChanged(M, index) ==
    IF PyValid(M.widgets, index)
    THEN [M EXCEPT !.cur = M.widgets[PyPos(M.widgets, index)]]
    ELSE M

\* QTabWidget.setCurrentIndex: currentChanged is emitted when the index changes.
QtSetCurrent(M, i) ==
    IF i \in 0..(Len(M.tabs) - 1) /\ i /= M.idx
    THEN OnCurrentChanged([M EXCEPT !.idx = i], i)
    ELSE M

\* QTabWidget.removeTab: the page goes, and currentChanged is emitted when the
\* current index changes: to the right neighbour (or the new last tab) when
\* the current tab was removed, one down when a tab before it was removed.
QtRemove(M, index) ==
    IF index \notin 0..(Len(M.tabs) - 1) THEN M
    ELSE LET rest == RemoveAt(M.tabs, index + 1)
             to == IF index = M.idx
                   THEN (IF index < Len(rest) THEN index ELSE Len(rest) - 1)
                   ELSE IF index < M.idx THEN M.idx - 1 ELSE M.idx
             N == [M EXCEPT !.tabs = rest, !.idx = to]
         IN  IF index <= M.idx THEN OnCurrentChanged(N, to) ELSE N

\* TabWidget.removeTab
RemoveTab(M, index) ==
    LET N == QtRemove(M, index)
    IN  IF ~PyValid(N.widgets, index) THEN [N EXCEPT !.exc = "IndexError"]
        ELSE LET widget == N.widgets[PyPos(N.widgets, index)]
             IN  [N EXCEPT !.widgets = RemoveAt(N.widgets, PyPos(N.widgets, index)),
                           !.cur = IF widget = N.cur THEN 0 ELSE N.cur,
                           !.closed = Append(N.closed, widget)]

\* index_from_filename
IndexFromFilename(M, path) ==
    IF \E k \in 1..Len(M.widgets) : M.ed[M.widgets[k]].path = path
    THEN (CHOOSE k \in 1..Len(M.widgets) :
              /\ M.ed[M.widgets[k]].path = path
              /\ \A j \in 1..(k - 1) : M.ed[M.widgets[j]].path /= path) - 1
    ELSE -1

\* _collect_dirty_tabs: the dirty widgets among the first count() entries of
\* self._widgets, without `exept`.
RECURSIVE Collect(_, _, _)
Collect(M, exept, i) ==
    IF i > Len(M.tabs) THEN <<>>
    ELSE (IF M.ed[M.widgets[i]].dirty /\ M.widgets[i] /= exept
          THEN <<M.widgets[i]>> ELSE <<>>)
         \o Collect(M, exept, i + 1)

\* The loop of _try_close_dirty_tabs over the selected items of the dialog:
\* the first dirty widget with the item's file name is saved and its tab
\* removed.
RECURSIVE SaveSelected(_, _, _)
SaveSelected(M, dirty, selected) ==
    IF selected = {} \/ M.exc /= "" THEN M
    ELSE LET k == CHOOSE x \in selected : \A y \in selected : x <= y
             filename == M.ed[dirty[k]].path
             widget == dirty[CHOOSE n \in 1..Len(dirty) :
                                 /\ M.ed[dirty[n]].path = filename
                                 /\ \A j \in 1..(n - 1) : M.ed[dirty[j]].path /= filename]
             saved == [M EXCEPT !.ed[widget].dirty = FALSE]
         IN  SaveSelected(RemoveTab(saved, IndexOf(saved.tabs, widget)),
                          dirty, selected \ {k})

\* _try_close_dirty_tabs: the state it leaves, whether it returned True, and
\* what the dialog was answered ("none": no dialog).
TryCloseDirty(M, exept, choice, selected) ==
    IF Len(M.widgets) < Len(M.tabs)
    THEN [m |-> [M EXCEPT !.exc = "IndexError"], ok |-> FALSE, dialog |-> "none"]
    ELSE LET dirty == Collect(M, exept, 1)
         IN  IF dirty = <<>> THEN [m |-> M, ok |-> TRUE, dialog |-> "none"]
             ELSE IF choice = "cancel" THEN [m |-> M, ok |-> FALSE, dialog |-> choice]
             ELSE IF choice = "discard" THEN [m |-> M, ok |-> TRUE, dialog |-> choice]
             ELSE LET N == SaveSelected(M, dirty, selected \cap (1..Len(dirty)))
                  IN  [m |-> N, ok |-> N.exc = "", dialog |-> choice]

\* `while self.count() > 1` of close_others; `rounds` counts the rounds left
\* before the loop is given up as one that does not end ("Endless").
RECURSIVE OthersLoop(_, _, _, _)
OthersLoop(M, current_widget, i, rounds) ==
    IF M.exc /= "" \/ Len(M.tabs) <= 1 THEN M
    ELSE IF rounds = 0 THEN [M EXCEPT !.exc = "Endless"]
    ELSE IF ~PyValid(M.widgets, i) THEN [M EXCEPT !.exc = "IndexError"]
    ELSE IF M.widgets[PyPos(M.widgets, i)] /= current_widget
         THEN OthersLoop(RemoveTab(M, i), current_widget, i, rounds - 1)
         ELSE OthersLoop(M, current_widget, 1, rounds - 1)

\* `while self.count()` of close_all: removeTab emits tab_closed, and the
\* loop emits it again.
RECURSIVE AllLoop(_)
AllLoop(M) ==
    IF M.exc /= "" \/ M.tabs = <<>> THEN M
    ELSE IF M.widgets = <<>> THEN [M EXCEPT !.exc = "IndexError"]
    ELSE LET widget == M.widgets[1]
             N == RemoveTab(M, 0)
         IN  IF N.exc /= "" THEN N
             ELSE AllLoop([N EXCEPT !.closed = Append(N.closed, widget)])

\* The end of an operation. last_tab_closed is emitted at the end of
\* _on_tab_close_requested only.
Commit(M, op, arg, ret, dialog, inCloseRequest) ==
    /\ editors' = M.ed
    /\ tw' = [tabs |-> M.tabs, widgets |-> M.widgets, idx |-> M.idx, cur |-> M.cur]
    /\ tlog' = [op |-> op, arg |-> arg, ret |-> ret, dialog |-> dialog, closed |-> M.closed,
                last |-> IF inCloseRequest /\ M.exc = "" /\ M.tabs = <<>>
                         THEN M.last + 1 ELSE M.last,
                exc |-> M.exc]
    /\ UNCHANGED <<backendVars, wire, modeVars>>

\* add_code_edit(code_edit) for a new editor of the file `path`; ret is the
\* value returned. QTabWidget.addTab makes the first tab current.
AddCodeEdit(path) ==
    LET index == IndexFromFilename(Now, path)
    IN  IF index /= -1
        THEN Commit(QtSetCurrent(Now, index), "add_code_edit", path, -1, "none", FALSE)
        ELSE /\ Len(editors) < MaxEditors
             /\ LET e == Len(editors) + 1
                    M == [Now EXCEPT !.ed = Append(editors, [path |-> path, dirty |-> FALSE]),
                                     !.widgets = Append(tw.widgets, e),
                                     !.tabs = Append(tw.tabs, e)]
                    N == IF tw.tabs = <<>> THEN OnCurrentChanged([M EXCEPT !.idx = 0], 0) ELSE M
                IN  Commit(QtSetCurrent(N, Len(N.tabs) - 1), "add_code_edit", path,
                           Len(N.tabs) - 1, "none", FALSE)

\* The user types into an open editor.
Edit(e) ==
    /\ e \in Range(tw.tabs)
    /\ ~editors[e].dirty
    /\ Commit([Now EXCEPT !.ed[e].dirty = TRUE], "edit", e, 0, "none", FALSE)

\* The user clicks on another tab.
SelectTab(i) ==
    /\ i \in 0..(Len(tw.tabs) - 1)
    /\ i /= tw.idx
    /\ Commit(QtSetCurrent(Now, i), "select", i, 0, "none", FALSE)

\* save_current(path): path 0 is None, ret 1 is True, 0 False.
SaveCurrent(path) ==
    IF tw.cur = 0
    THEN Commit(Now, "save_current", path, 0, "none", FALSE)
    ELSE Commit([Now EXCEPT !.ed[tw.cur] =
                     [path |-> IF path /= 0 THEN path ELSE editors[tw.cur].path,
                      dirty |-> FALSE]],
                "save_current", path, 1, "none", FALSE)

\* _on_tab_close_requested(index)
OnTabCloseRequested(op, index, choice) ==
    IF ~PyValid(tw.widgets, index)
    THEN Commit([Now EXCEPT !.exc = "IndexError"], op, index, 0, "none", TRUE)
    ELSE IF ~editors[tw.widgets[PyPos(tw.widgets, index)]].dirty
         THEN /\ choice = "cancel"
              /\ Commit(RemoveTab(Now, index), op, index, 0, "none", TRUE)
         ELSE IF choice = "cancel" THEN Commit(Now, op, index, 0, choice, TRUE)
         ELSE Commit(RemoveTab(Now, index), op, index, 0, choice, TRUE)

\* The close button of tab `index`.
TabCloseRequested(index, choice) ==
    /\ index \in 0..(Len(tw.tabs) - 1)
    /\ OnTabCloseRequested("tab_close_requested", index, choice)

\* close(): `tabCloseRequested.emit(self.currentIndex())`
Close(choice) == OnTabCloseRequested("close", tw.idx, choice)

\* The answers to the dialog of unsaved files: with no dirty tab there is no
\* dialog, and the save button is enabled when items are selected.
Answers(exept, choice, selected) ==
    LET dirty == IF Len(tw.widgets) < Len(tw.tabs) THEN <<>> ELSE Collect(Now, exept, 1)
    IN  IF dirty = <<>> THEN choice = "cancel" /\ selected = {}
        ELSE /\ selected \subseteq 1..Len(dirty)
             /\ (choice = "save") = (selected /= {})

\* close_others(): what _try_close_dirty_tabs returns is not looked at.
CloseOthers(choice, selected) ==
    LET current_widget == IF tw.idx \in 0..(Len(tw.tabs) - 1) THEN tw.tabs[tw.idx + 1] ELSE 0
        t == TryCloseDirty(Now, current_widget, choice, selected)
    IN  /\ Answers(current_widget, choice, selected)
        /\ Commit(OthersLoop(t.m, current_widget, 0, 2 * MaxEditors + 2),
                  "close_others", 0, 0, t.dialog, FALSE)

\* close_all(), and closeEvent(event) which accepts the event when close_all
\* returns True and ignores it otherwise: ret 1 is True, 0 False.
CloseAll(op, choice, selected) ==
    LET t == TryCloseDirty(Now, 0, choice, selected)
    IN  /\ Answers(0, choice, selected)
        /\ IF t.ok
           THEN Commit(AllLoop(t.m), op, 0, 1, t.dialog, FALSE)
           ELSE Commit(t.m, op, 0, 0, t.dialog, FALSE)

\* removeTab(index), called by the application.
RemoveTabCall(index) ==
    /\ index \in 0..(Len(tw.tabs) - 1)
    /\ Commit(RemoveTab(Now, index), "remove_tab", index, 0, "none", FALSE)

\* _on_file_deleted(editor): the file watcher of an editor stays connected
\* when its tab is removed, so the editor need not be a tab (indexOf is -1).
OnFileDeleted(e) ==
    /\ e \in 1..Len(editors)
    /\ Commit(RemoveTab(Now, IndexOf(tw.tabs, e)), "file_deleted", e, 0, "none", FALSE)

TabsInit ==
    /\ InitBackend /\ platform = "posix" /\ frozen = FALSE /\ wire = WireIdle
    /\ TabsIdle /\ ModesIdle

TabsNext ==
    \/ \E p \in Paths : AddCodeEdit(p)
    \/ \E e \in 1..Len(editors) : Edit(e)
    \/ \E i \in 0..(MaxEditors - 1) : SelectTab(i)
    \/ \E p \in Paths \cup {0} : SaveCurrent(p)
    \/ \E i \in 0..(MaxEditors - 1), c \in {"cancel", "save", "discard"} :
           TabCloseRequested(i, c)
    \/ \E c \in {"cancel", "save", "discard"} : Close(c)
    \/ \E c \in {"cancel", "save", "discard"}, sel \in SUBSET (1..MaxEditors) :
           CloseOthers(c, sel)
    \/ \E op \in {"close_all", "close_event"}, c \in {"cancel", "save", "discard"},
          sel \in SUBSET (1..MaxEditors) :
           CloseAll(op, c, sel)
    \/ \E i \in 0..(MaxEditors - 1) : RemoveTabCall(i)
    \/ \E e \in 1..Len(editors) : OnFileDeleted(e)

TabsSpec == TabsInit /\ [][TabsNext]_vars

\* ---------------------------------------------------------------------------
\* InteractiveConsole: a text edit that runs one QProcess. The output is the
\* list of the application messages written.

MaxOutput == 3

\* _write_error(error)
WriteError(C) ==
    [C EXCEPT !.output = Append(@, IF C.user_stop THEN "stopped" ELSE "failed"),
              !.user_stop = FALSE,
              !.running = FALSE]

\* start_process(process, args) with clear_on_start at its default. What
\* QProcess.start does is `launch`: "ok" starts the child, "fail_async" reports
\* FailedToStart from the event loop, "fail_sync" emits error(FailedToStart)
\* before start() returns; on a QProcess that is not NotRunning start() only
\* warns.
StartProcess(process, args, launch) ==
    IF ~console.running
    THEN LET C1 == [console EXCEPT !.running = TRUE, !.program = process, !.args = args,
                                   !.output = <<>>, !.user_stop = FALSE]
             C2 == IF C1.qstate /= "NotRunning" THEN C1
                   ELSE IF launch = "ok"
                        THEN [C1 EXCEPT !.qstate = "Starting", !.live = @ + 1]
                   ELSE IF launch = "fail_async" THEN [C1 EXCEPT !.qstate = "Starting"]
                   ELSE WriteError(C1)
         IN  /\ console' = [C2 EXCEPT !.output = Append(@, "started"), !.running = TRUE,
                                      !.op = "start_process"]
             /\ UNCHANGED <<backendVars, wire, tabVars, highlighter, matcher>>
    ELSE /\ launch = "ok"
         /\ console' = [console EXCEPT !.op = "start_refused"]
         /\ UNCHANGED <<backendVars, wire, tabVars, highlighter, matcher>>

\* stop_process(): kill() ends the child, if there is one, in a later event.
StopProcess ==
    /\ console' = [console EXCEPT !.user_stop = TRUE, !.op = "stop_process"]
    /\ UNCHANGED <<backendVars, wire, tabVars, highlighter, matcher>>

\* The signals of the QProcess, delivered by the event loop: started (no
\* slot), error(FailedToStart), error(WriteError or ReadError) of a child that
\* goes on running, finished after a normal exit, and error(Crashed) followed
\* by finished when the child was killed or crashed. _write_finished writes
\* its message and resets the flag.
ProcessEvent(kind) ==
    /\ console.qstate /= "NotRunning"
    /\ Len(console.output) < MaxOutput
    /\ \/ /\ kind = "started" /\ console.qstate = "Starting" /\ console.live = 1
          /\ console' = [console EXCEPT !.qstate = "Running", !.op = kind]
       \/ /\ kind = "failed_to_start" /\ console.live = 0
          /\ console' = [WriteError(console) EXCEPT !.qstate = "NotRunning", !.op = kind]
       \/ /\ kind = "io_error" /\ console.qstate = "Running" /\ console.live = 1
          /\ console' = [WriteError(console) EXCEPT !.op = kind]
       \/ /\ kind = "exited" /\ console.live = 1
          /\ console' = [console EXCEPT !.output = Append(@, "finished"), !.running = FALSE,
                                        !.qstate = "NotRunning", !.live = 0, !.op = kind]
       \/ /\ kind = "crashed" /\ console.live = 1
          /\ console' = [WriteError(console) EXCEPT !.output = Append(@, "finished"),
                                                    !.qstate = "NotRunning", !.live = 0,
                                                    !.op = kind]
    /\ UNCHANGED <<backendVars, wire, tabVars, highlighter, matcher>>

ConsoleNext ==
    \/ \E process \in {"a", "b"}, launch \in {"ok", "fail_async", "fail_sync"} :
           StartProcess(process, IF process = "a" THEN <<>> ELSE <<"x">>, launch)
    \/ StopProcess
    \/ \E kind \in {"started", "failed_to_start", "io_error", "exited", "crashed"} :
           ProcessEvent(kind)

ConsoleSpec == TabsInit /\ [][ConsoleNext]_vars

\* ---------------------------------------------------------------------------
\* PygmentsSH: blocks are numbered from 1 here (blockNumber() + 1), 0 is None.
\* A block holds its text, whether it has user data with a syntax_stack, and
\* that stack.

MaxLines == 3

\* Deepest lexer stack explored (nested "/*" push without limit).
MaxStack == 3

\* RegexLexer.get_tokens_unprocessed for the patched C lexer, on a line that
\* is code, opens a comment ("/*") or closes one ("*/"): the stack it ends
\* with when it starts from `stack`. The newline get_tokens appends keeps
\* the state.
Lex(stack, text) ==
    IF text = "open"
    THEN Append(stack, "comment")
    ELSE IF text = "close" /\ stack[Len(stack)] = "comment"
         THEN SubSeq(stack, 1, Len(stack) - 1)
         ELSE stack

\* highlight_block(text, block) for block n, with editor, lexer and enabled
\* set. `start` is the stack the lexer began with.
HighlightBlock(n) ==
    /\ n \in 1..Len(highlighter.blocks)
    /\ IF n /= 1 /\ highlighter.prev_block = 0
       THEN highlighter' = [highlighter EXCEPT !.op = "highlight_block", !.n = n,
                                               !.start = <<>>, !.exc = "AttributeError"]
       ELSE LET prev_data == highlighter.blocks[highlighter.prev_block]
                start == IF n /= 1 /\ prev_data.done THEN prev_data.stack ELSE <<"root">>
            IN  /\ Len(Lex(start, highlighter.blocks[n].text)) <= MaxStack
                /\ highlighter' =
                    [highlighter EXCEPT !.blocks[n].done = TRUE,
                                        !.blocks[n].stack = Lex(start, highlighter.blocks[n].text),
                                        !.prev_block = n,
                                        !.op = "highlight_block", !.n = n,
                                        !.start = start, !.exc = ""]
    /\ UNCHANGED <<backendVars, wire, tabVars, console, matcher>>

HighlightInit ==
    /\ InitBackend /\ platform = "posix" /\ frozen = FALSE /\ wire = WireIdle /\ TabsIdle
    /\ console = ConsoleIdle
    /\ matcher = MatcherIdle(<<>>)
    /\ \E texts \in [1..MaxLines -> {"code", "open", "close"}] :
           highlighter = [blocks |-> [k \in 1..MaxLines |->
                                         [text |-> texts[k], done |-> FALSE, stack |-> <<>>]],
                          prev_block |-> 0, op |-> "init", n |-> 0, start |-> <<>>,
                          exc |-> ""]

HighlightNext == \E n \in 1..MaxLines : HighlightBlock(n)

HighlightSpec == HighlightInit /\ [][HighlightNext]_vars

\* ---------------------------------------------------------------------------
\* SymbolMatcherMode: a document is a sequence of blocks, a block the sequence
\* of the characters of its parenthesis records, in the order of their
\* positions. Records are numbered from 1 here. A search result is NotFound
\* (the search returned False) or names the record it selected.

MaxBlocks == 3

\* Blocks the search may visit before the interpreter's recursion limit is
\* hit: each block crossed is one nested call.
RecursionLimit == 2

\* A search that takes the first closing symbol it meets.
RECURSIVE matchLeftParenthesis_noDepth(_, _, _, _, _)
matchLeftParenthesis_noDepth(blocks, b, i, cpt, frames) ==
    IF frames = 0
    THEN NotFound
    ELSE IF i <= Len(blocks[b])
         THEN IF blocks[b][i] = "("
              THEN matchLeftParenthesis_noDepth(blocks, b, i + 1, cpt, frames)
              ELSE [ran |-> TRUE, found |-> TRUE, block |-> b, index |-> i]
         ELSE IF b < Len(blocks)
              THEN matchLeftParenthesis_noDepth(blocks, b + 1, 1, cpt, frames - 1)
              ELSE NotFound

\* matchLeftParenthesis(currentBlock, i, cpt): the loop over the records of
\* block b from record i, then the call for the next block. `frames` is the
\* number of nested calls the interpreter still allows; with none left the
\* RuntimeError is caught and the search returns False.
RECURSIVE matchLeftParenthesis(_, _, _, _, _)
matchLeftParenthesis(blocks, b, i, cpt, frames) ==
    IF frames = 0
    THEN NotFound
    ELSE IF i <= Len(blocks[b])
         THEN IF blocks[b][i] = "("
              THEN matchLeftParenthesis(blocks, b, i + 1, cpt + 1, frames)
              ELSE IF cpt = 0
                   THEN [ran |-> TRUE, found |-> TRUE, block |-> b, index |-> i]
                   ELSE matchLeftParenthesis(blocks, b, i + 1, cpt - 1, frames)
         ELSE IF b < Len(blocks)
              THEN matchLeftParenthesis(blocks, b + 1, 1, cpt, frames - 1)
              ELSE NotFound

\* matchRightParenthesis(currentBlock, i, numRightParentheses): the loop from
\* record i down to the first record of block b, then the call for the
\* previous block from its last record.
RECURSIVE matchRightParenthesis(_, _, _, _, _)
matchRightParenthesis(blocks, b, i, numRightParentheses, frames) ==
    IF frames = 0
    THEN NotFound
    ELSE IF i >= 1
         THEN IF blocks[b][i] = ")"
              THEN matchRightParenthesis(blocks, b, i - 1, numRightParentheses + 1, frames)
              ELSE IF numRightParentheses = 0
                   THEN [ran |-> TRUE, found |-> TRUE, block |-> b, index |-> i]
                   ELSE matchRightParenthesis(blocks, b, i - 1, numRightParentheses - 1,
                                              frames)
         ELSE IF b > 1
              THEN matchRightParenthesis(blocks, b - 1, Len(blocks[b - 1]),
                                         numRightParentheses, frames - 1)
              ELSE NotFound

\* matchParentheses with the cursor in block b after `cursor` records: the
\* record right of the cursor, when it is "(", is searched forward from the
\* record after it; the record left of the cursor, when it is ")", is
\* searched backward from the record before it.
MatchParentheses(b, cursor) ==
    /\ b \in 1..Len(matcher.blocks)
    /\ cursor \in 0..Len(matcher.blocks[b])
    /\ LET parentheses == matcher.blocks[b]
           none == [NotFound EXCEPT !.ran = FALSE]
       IN  matcher' =
               [matcher EXCEPT
                   !.op = "matchParentheses", !.block = b, !.cursor = cursor,
                   !.left = IF cursor < Len(parentheses) /\ parentheses[cursor + 1] = "("
                            THEN matchLeftParenthesis(matcher.blocks, b, cursor + 2, 0,
                                                      RecursionLimit)
                            ELSE none,
                   !.right = IF cursor >= 1 /\ parentheses[cursor] = ")"
                             THEN matchRightParenthesis(matcher.blocks, b, cursor - 1, 0,
                                                        RecursionLimit)
                             ELSE none]
    /\ UNCHANGED <<backendVars, wire, tabVars, console, highlighter>>

MatchInit ==
    /\ InitBackend /\ platform = "posix" /\ frozen = FALSE /\ wire = WireIdle /\ TabsIdle
    /\ console = ConsoleIdle
    /\ highlighter = [blocks |-> <<>>, prev_block |-> 0, op |-> "init", n |-> 0,
                      start |-> <<>>, exc |-> ""]
    /\ LET Records == {<<>>, <<"(">>, <<")">>, <<"(", "(">>, <<"(", ")">>, <<")", "(">>,
                       <<")", ")">>}
       IN  \E blocks \in [1..MaxBlocks -> Records] : matcher = MatcherIdle(blocks)

MatchNext ==
    \E b \in 1..MaxBlocks : \E cursor \in 0..Len(matcher.blocks[b]) : MatchParentheses(b, cursor)

MatchSpec == MatchInit /\ [][MatchNext]_vars

\* ---------------------------------------------------------------------------
\* Properties

InStop == pc \in {"stop_test", "stop_signal"}
StopSteps == {"stop_begin", "stop_wait", "stop_signal", "stop_return"}
ClientIds == 1..Len(clients)

\* C1: a send_request made while running is false (never started, stopped or
\* crashed) raises NotRunning, creates no client (so no connection is opened)
\* and leaves the active set as it was.
C1_NotRunningRejected ==
    [][(lastOp' = "send_request" /\ (pid = 0 \/ pstate = "NotRunning"))
        => (raised' = "NotRunning" /\ clients' = clients /\ sockets' = sockets)]_vars

\* A send_request on a backend that was started and is no longer running.
C1_Witness ==
    lastOp = "send_request" /\ raised = "NotRunning" /\ pid /= 0 /\ clients /= <<>>

\* C2: at most one worker process of the manager is alive at any time; when
\* start() has returned, the only worker that can be alive is the new one.
C2_AtMostOneWorker ==
    /\ Cardinality(alive) <= 1
    /\ lastOp \in {"start", "restart"} => alive \subseteq {pid}

\* start() on a running backend has returned: the second worker runs alone.
C2_Witness == lastOp = "restart" /\ pid = 2 /\ alive = {2}

\* C3: when stop() returns, running is false and the worker process is gone,
\* so the start() that follows spawns into a manager without a live process.
C3_StoppedWhenStopReturns ==
    /\ lastOp = "stop_return" => (~running /\ alive = {})
    /\ pc = "start_rest" => alive = {}

\* stop() returns from the teardown of a backend that was running.
C3_Witness == lastOp = "stop_return" /\ cont.pending /\ pid /= 0

\* C4: no on_receive callback is invoked for a request that was in flight when
\* a stop() was called.
C4_NoCallbackAfterStop == delivered /= 0 => ~clients[delivered].cut

\* C5: once stop() has reached its poll loop (before it signals the process),
\* every client that was in the active set at the call is closed, has no
\* callback, and the active set is empty.
C5_AllClosedBeforeSignal ==
    InStop => /\ sockets = <<>>
              /\ \A c \in ClientIds :
                    clients[c].cut => (clients[c].st = "closed" /\ ~clients[c].cb)

C7_ReleasedExactlyOnce ==
    /\ raised /= "ValueError"
    /\ \A c \in ClientIds : (c \in Range(sockets)) <=> (clients[c].st /= "closed")

C11_NoRestartWithoutStart ==
    [][(pid /= 0 /\ pstate = "NotRunning" /\ lastOp' \notin {"start", "restart"})
        => /\ pstate' = "NotRunning"
           /\ pid' = pid
           /\ alive' \subseteq alive
           /\ lastOp' = "send_request" => raised' = "NotRunning"]_vars

\* A send_request is refused after a crash: no stop() has emptied the active
\* set, yet the process object is in state NotRunning.
C11_Witness ==
    /\ lastOp = "send_request"
    /\ raised = "NotRunning"
    /\ pid /= 0
    /\ sockets /= <<>>

C20_ExitCode ==
    /\ running => exit_code = Returns({})
    /\ (wstate \in {"STOPPED", "CRASHED"} /\ osExit /= -1)
          => exit_code = Returns({osExit})

\* stop() has returned from a worker it killed: exit_code is its exit status.
C20_Witness ==
    /\ lastOp = "stop_return"
    /\ osExit \in {9, 15}
    /\ exit_code = Returns({osExit})

\* C12: a request for a registered handler that returns is answered with one
\* OK Response whose payload is what the handler returned for the arguments
\* the caller passed, handed to the callback of that very request, whatever
\* else is in flight.
C12_OkToItsOwnCallback ==
    (lastOp = "client_response" /\ clients[resp.client].asked.handler = "echo")
        => /\ resp = Ok(resp.client, clients[resp.client].asked.arg)
           /\ clients[resp.client].given
                => (delivered = resp.client /\ clients[resp.client].calls = 1)
           /\ \A d \in ClientIds \ {resp.client} :
                clients[d].st /= "closed" => clients[d].calls = 0

C12_Witness ==
    /\ lastOp = "client_response"
    /\ resp = Ok(1, 2)
    /\ delivered = 1
    /\ Len(clients) = 2
    /\ clients[2].st = "connected"
    /\ clients[2].asked = [handler |-> "echo", arg |-> 1]

\* C13: a handler that raises is answered with an ERROR Response carrying the
\* kind and the message of the exception, and the worker is still running.
C13_HandlerErrorAnswered ==
    (lastOp = "client_response" /\ clients[resp.client].asked.handler = "boom")
        => /\ resp = Err(resp.client, "RuntimeError", "boom")
           /\ clients[resp.client].given => delivered = resp.client
           /\ clients[resp.client].target \in alive
           /\ running

\* a request to "echo" sent after the failed one is answered with OK
C13_Witness ==
    /\ lastOp = "client_response"
    /\ resp = Ok(2, 1)
    /\ clients[1].asked.handler = "boom"
    /\ clients[1].st = "closed"
    /\ clients[1].calls = 1
    /\ pstate = "Running"
    /\ sockets = <<>>

\* C14: a request for a name that is not registered is answered with an ERROR
\* Response of kind UnknownHandler, and the worker is still running.
C14_UnknownHandlerAnswered ==
    (lastOp = "client_response" /\ clients[resp.client].asked.handler \notin Registered)
        => /\ resp.status = "error"
           /\ resp.kind = "UnknownHandler"
           /\ clients[resp.client].given => delivered = resp.client
           /\ clients[resp.client].target \in alive
           /\ running

C14_Witness ==
    /\ lastOp = "client_response"
    /\ resp.kind = "UnknownHandler"
    /\ delivered = resp.client
    /\ clients[resp.client].asked.handler = "nope"
    /\ pid \in alive

\* C15: a connected request whose handler returns is eventually answered,
\* also while the handler of another request never returns.
C15_NoRequestBlocksAnother ==
    \A c \in 1..MaxRequests :
        (/\ c \in ClientIds
         /\ clients[c].st = "connected"
         /\ clients[c].handler /= "hang")
            ~> (c \in ClientIds /\ clients[c].st = "closed" /\ clients[c].calls = 1)

C15_Witness ==
    /\ lastOp = "client_response"
    /\ resp.client = 2
    /\ clients[1].handler = "hang"
    /\ clients[1].st = "connected"

\* C16: a request whose connection is refused is not tried again and not
\* dropped: the client ends, and its callback is invoked once with an ERROR
\* Response of kind ConnectionFailed.
C16_ConnectFailureReported ==
    lastOp = "client_connect_failed"
        => /\ resp.status = "error"
           /\ resp.kind = "ConnectionFailed"
           /\ clients[resp.client].st = "closed"
           /\ clients[resp.client].given
                => (delivered = resp.client /\ clients[resp.client].calls = 1)

C16_Witness ==
    /\ lastOp = "client_connect_failed"
    /\ resp.kind = "ConnectionFailed"
    /\ delivered = 1
    /\ clients[1].calls = 1
    /\ ~listening
    /\ running

\* C18: a frame that does not decode costs its own connection only: the
\* worker is still running, and no other request is completed or touched.
C18_BadFrameDropsOnlyItself ==
    [][lastOp' = "client_dropped"
        => /\ alive' = alive
           /\ pstate' = pstate
           /\ listening' = listening
           /\ resp'.kind = "TransportError"
           /\ clients'[resp'.client].st = "closed"
           /\ ~clients[resp'.client].frameOk
           /\ \A d \in ClientIds \ {resp'.client} : clients'[d] = clients[d]]_vars

\* a request on another connection is answered after the drop
C18_Witness ==
    /\ lastOp = "client_response"
    /\ resp = Ok(2, 1)
    /\ clients[1].st = "closed"
    /\ ~clients[1].frameOk
    /\ clients[1].asked.handler = "echo"

\* C17: decoding the frame of a message yields an equivalent JSON value, and
\* encoding that value again yields the same frame.
C17_RoundTrip ==
    (wire.pc \in {"decoded", "reframed"} /\ ~wire.damaged)
        => /\ wire.out.ok
           /\ JsonEq(wire.out.v, wire.value)
           /\ wire.pc = "reframed"
                => /\ wire.again = wire.frame
                   /\ Decode(wire.again).ok
                   /\ JsonEq(Decode(wire.again).v, wire.value)

\* a nested object with an array, a two-byte character and an escaped key
C17_Witness ==
    /\ wire.pc = "reframed"
    /\ ~wire.damaged
    /\ wire.value = Obj(<<Member(<<107>>, Arr(<<Str(<<34, 92, 97>>), Num(-12)>>)),
                          Member(<<34, 233>>, Str(<<233>>))>>)
    /\ wire.again = wire.frame
    /\ Len(wire.frame) > 4 + Len(JsonText(wire.value))

\* C21: when start() has returned, running is true and send_request is
\* accepted, although the worker has not bound its port yet.
C21_RunningAtOnce ==
    [][/\ (lastOp' \in {"start", "restart"} /\ raised' = "")
            => (running' /\ Accepts' /\ wstate' = "RUNNING" /\ ~listening')
       /\ (lastOp \in {"start", "restart"} /\ lastOp' = "send_request")
            => (raised' = "" /\ Len(sockets') = Len(sockets) + 1)]_vars

C21_Witness ==
    /\ lastOp = "send_request"
    /\ raised = ""
    /\ pstate = "Starting"
    /\ ~listening
    /\ sockets /= <<>>

\* C22: stop() on a manager that was never started signals no process and
\* leaves the process reference, the active set and the suppression flag as
\* they are.
C22_StopNoopIfNeverStarted ==
    [][(pid = 0 /\ lastOp' \in {"stop_noop", "stop_begin"})
        => /\ lastOp' = "stop_noop"
           /\ sig' = NoSig
           /\ fired' = 0
           /\ UNCHANGED <<pid, pstate, sockets, clients, prevent, pendingSig, alive, pc>>]_vars

C22_Witness == lastOp = "stop_noop" /\ pid = 0 /\ ~prevent /\ pc = "idle"

\* The extra arguments the last start() was given, as command line elements.
GivenExtra ==
    IF config.args.given
    THEN [i \in 1..Len(config.args.items) |-> TextArg(config.args.items[i])]
    ELSE <<>>

StartSucceeded == lastOp \in {"start", "restart"} /\ raised = ""
PackagedLaunch == frozen /\ ~EndsWithPy(BackendScript(config.server_script))

\* C23: the worker is spawned as <interpreter> <script> <port> [extra...], or
\* as <binary> <port> [extra...] by a packaged application whose script is not
\* a source file; the port is the one this start() picked, and the one the
\* clients of send_request connect to.
C23_CommandLine ==
    /\ StartSucceeded =>
          /\ port \in Ports
          /\ IF PackagedLaunch
             THEN /\ command.program = BackendScript(config.server_script)
                  /\ command.pgm_args = <<PortArg(port)>> \o GivenExtra
             ELSE /\ command.program = config.interpreter
                  /\ command.pgm_args =
                        <<PathArg(BackendScript(config.server_script)), PortArg(port)>>
                            \o GivenExtra
          /\ ".pyc" \notin Range(config.server_script)
                => BackendScript(config.server_script) = config.server_script
    /\ \A c \in ClientIds :
          clients[c].target = pid =>
              /\ clients[c].port = port
              /\ \E i \in 1..Len(command.pgm_args) : command.pgm_args[i] = PortArg(port)

C23_Witness ==
    /\ lastOp = "send_request"
    /\ raised = ""
    /\ pid = 2
    /\ clients[1].target = 1
    /\ clients[2].target = 2
    /\ clients[1].port /= clients[2].port
    /\ command = [program |-> <<"server", ".exe">>,
                  pgm_args |-> <<PortArg(port), TextArg("--log"), TextArg("x")>>]

\* C24 (as stated): when no port can be had, start() fails, spawns nothing,
\* and a worker that was running when start() was called is still running.
\* ("restart" is the part of a start() that found a worker running.)
C24_FailedStartKeepsWorker ==
    [][(lastOp' \in {"start", "restart"} /\ raised' /= "")
        => /\ pid' = pid
           /\ alive' = alive
           /\ lastOp' = "restart" => running']_vars

\* C30 (as stated): a packaged launch passes the port and nothing else,
\* whatever extra arguments start() was given.
C30_PortSoleArgument ==
    (StartSucceeded /\ PackagedLaunch) => command.pgm_args = <<PortArg(port)>>

\* C30 (amended): a packaged launch runs the script itself, with the port as
\* first argument and the extra arguments of start() behind it; the port is
\* the sole argument when start() was given no extra arguments.
C30_PortFirstArgument ==
    (StartSucceeded /\ PackagedLaunch)
        => /\ command.program = BackendScript(config.server_script)
           /\ command.pgm_args[1] = PortArg(port)
           /\ SubSeq(command.pgm_args, 2, Len(command.pgm_args)) = GivenExtra
           /\ GivenExtra = <<>> => command.pgm_args = <<PortArg(port)>>

C30_Witness ==
    /\ StartSucceeded
    /\ PackagedLaunch
    /\ config.args = ArgList(<<"--log", "x">>)
    /\ Len(command.pgm_args) = 3

\* ---------------------------------------------------------------------------
\* TabWidget

\* C25: no two open tabs have the same file path, whatever sequence of
\* add_code_edit, save_current(path), close and removeTab led there; and
\* add_code_edit of a path that is open adds no tab, makes the tab of that
\* path current and returns -1.
C25_OneTabPerPath ==
    /\ [](\A i, j \in 1..Len(tw.tabs) :
              editors[tw.tabs[i]].path = editors[tw.tabs[j]].path => i = j)
    /\ [][(/\ tlog'.op = "add_code_edit"
           /\ \E k \in 1..Len(tw.tabs) : editors[tw.tabs[k]].path = tlog'.arg)
            => /\ tw'.tabs = tw.tabs
               /\ tlog'.ret = -1
               /\ tw'.idx \in 0..(Len(tw'.tabs) - 1)
               /\ editors'[tw'.tabs[tw'.idx + 1]].path = tlog'.arg]_vars

\* C26: when the dialog of unsaved files is cancelled, nothing changes and no
\* tab is closed, whichever operation showed the dialog (close, close_others,
\* close_all, closeEvent).
C26_CancelChangesNothing ==
    [][tlog'.dialog = "cancel"
        => (tw' = tw /\ editors' = editors /\ tlog'.closed = <<>>)]_vars

\* C27: tab_closed is emitted exactly once, with the removed widget, for each
\* tab an operation removes, and for no other widget.
C27_TabClosedOncePerTab ==
    [][\A e \in 1..MaxEditors :
           Cardinality({k \in 1..Len(tlog'.closed) : tlog'.closed[k] = e})
               = IF e \in Range(tw.tabs) \ Range(tw'.tabs) THEN 1 ELSE 0]_vars

\* C28: last_tab_closed is emitted when close, close_all or the deletion of a
\* file takes the tab count from 1 or more to 0, and is not emitted when no
\* tab was removed.
C28_LastTabClosed ==
    [][/\ (/\ tlog'.op \in {"close", "tab_close_requested", "close_all", "file_deleted"}
           /\ tw.tabs /= <<>>
           /\ tw'.tabs = <<>>) => tlog'.last >= 1
       /\ tw'.tabs = tw.tabs => tlog'.last = 0]_vars

\* C29: active_editor is the widget of the current tab, None when no tab is
\* open; after the current tab was removed while other tabs remain it is the
\* widget of the tab that became current.
C29_ActiveEditorIsCurrent ==
    /\ [](tw.cur = IF tw.tabs = <<>> THEN 0 ELSE tw.tabs[tw.idx + 1])
    /\ [][(/\ tw.tabs /= <<>>
           /\ tw.tabs[tw.idx + 1] \notin Range(tw'.tabs)
           /\ tw'.tabs /= <<>>) => tw'.cur = tw'.tabs[tw'.idx + 1]]_vars

\* ---------------------------------------------------------------------------
\* BackendManager, continued

C34_ExitCodeNeverRaises == exit_code.raised = ""

\* C35: once start() has returned, every client in the active set was created
\* after that start() and targets the port of the current worker; clients of a
\* worker that crashed are not in the set after the restart.
C35_ActiveSetIsCurrent ==
    pc = "idle" => \A k \in 1..Len(sockets) :
                       /\ clients[sockets[k]].target = pid
                       /\ clients[sockets[k]].port = port

\* ---------------------------------------------------------------------------
\* TabWidget, continued

\* C31: close_others ends for every tab list and current tab, and when the
\* dialog was not cancelled exactly one tab is left open, the one that was
\* current when close_others was called.
C31_CloseOthersLeavesCurrent ==
    [][(tlog'.op = "close_others" /\ tw.tabs /= <<>>)
        => /\ tlog'.exc /= "Endless"
           /\ tlog'.dialog /= "cancel"
                => (tlog'.exc = "" /\ tw'.tabs = <<tw.tabs[tw.idx + 1]>>)]_vars

\* C36: self._widgets mirrors the open tabs: as many entries as tabs, and
\* entry i is the widget of tab i, after any sequence of operations.
C36_WidgetsMirrorTabs == tw.widgets = tw.tabs

\* ---------------------------------------------------------------------------
\* InteractiveConsole

\* C32: start_process called while a child process is running starts no
\* second process and leaves the recorded program, arguments, output and
\* flags unchanged; no two child processes are alive at once.
C32_NoSecondStart ==
    /\ [](console.live <= 1)
    /\ [][(console.live >= 1 /\ console'.op \in {"start_process", "start_refused"})
            => /\ console'.live = console.live
               /\ console'.program = console.program
               /\ console'.args = console.args
               /\ console'.output = console.output
               /\ console'.running = console.running
               /\ console'.user_stop = console.user_stop]_vars

\* C37: the running flag is false whenever no child process is alive and the
\* QProcess has reported it (finished, or an error, also a failure to start
\* reported while start_process is executing), and start_process is then
\* accepted.
C37_FlagFalseWithoutChild ==
    /\ []((console.live = 0 /\ console.qstate = "NotRunning") => ~console.running)
    /\ [][(/\ console.live = 0
           /\ console.qstate = "NotRunning"
           /\ console'.op \in {"start_process", "start_refused"})
            => console'.op = "start_process"]_vars

\* ---------------------------------------------------------------------------
\* PygmentsSH

\* C38: highlight_block lexes block n > 0 from the stack saved at the end of
\* block n - 1, in whatever order the blocks are highlighted, and does not
\* fail when the first call is for any block.
C38_LexesFromPreviousBlock ==
    [][highlighter'.op = "highlight_block"
        => /\ highlighter'.exc = ""
           /\ (highlighter'.n > 1 /\ highlighter.blocks[highlighter'.n - 1].done)
                => highlighter'.start = highlighter.blocks[highlighter'.n - 1].stack]_vars

\* ---------------------------------------------------------------------------
\* SymbolMatcherMode

\* C39 (as stated): the forward search from an opening symbol selects the
\* closing symbol that balances it, the backward search from a closing
\* symbol selects the opening symbol that balances it, the search from the
\* selected symbol leads back, and a search returns False exactly when no
\* balancing partner exists.
C39_FalseOnlyWithoutPartner ==
    matcher.op = "matchParentheses" =>
        LET D == matcher.blocks
            Pos == UNION {{<<b, j>> : j \in 1..Len(D[b])} : b \in 1..Len(D)}
            Before(p, q) == p[1] < q[1] \/ (p[1] = q[1] /\ p[2] < q[2])
            Count(p, q, ch) ==
                Cardinality({r \in Pos : ~Before(r, p) /\ ~Before(q, r) /\ D[r[1]][r[2]] = ch})
            Even(p, q) == Before(p, q) /\ Count(p, q, "(") = Count(p, q, ")")
            Sel(r) == <<r.block, r.index>>
            open == <<matcher.block, matcher.cursor + 1>>
            closers == {q \in Pos : Even(open, q)}
            close == <<matcher.block, matcher.cursor>>
            openers == {p \in Pos : Even(p, close)}
        IN  /\ matcher.left.ran =>
                /\ matcher.left.found <=> closers /= {}
                /\ matcher.left.found =>
                    /\ \A q \in closers : ~Before(q, Sel(matcher.left))
                    /\ Sel(matcher.left) \in closers
                    /\ matchRightParenthesis(D, matcher.left.block, matcher.left.index - 1,
                                             0, RecursionLimit)
                         = [ran |-> TRUE, found |-> TRUE, block |-> open[1],
                            index |-> open[2]]
            /\ matcher.right.ran =>
                /\ matcher.right.found <=> openers /= {}
                /\ matcher.right.found =>
                    /\ \A p \in openers : ~Before(Sel(matcher.right), p)
                    /\ Sel(matcher.right) \in openers
                    /\ matchLeftParenthesis(D, matcher.right.block, matcher.right.index + 1,
                                            0, RecursionLimit)
                         = [ran |-> TRUE, found |-> TRUE, block |-> close[1],
                            index |-> close[2]]

\* C39 (amended): the same, for partners the search reaches within the
\* recursion limit, one nested call per block crossed; when the balancing
\* partner lies further away, the search returns False although it exists.
C39_PairsWithinRecursionLimit ==
    matcher.op = "matchParentheses" =>
        LET D == matcher.blocks
            Pos == UNION {{<<b, j>> : j \in 1..Len(D[b])} : b \in 1..Len(D)}
            Before(p, q) == p[1] < q[1] \/ (p[1] = q[1] /\ p[2] < q[2])
            Count(p, q, ch) ==
                Cardinality({r \in Pos : ~Before(r, p) /\ ~Before(q, r) /\ D[r[1]][r[2]] = ch})
            Even(p, q) == Before(p, q) /\ Count(p, q, "(") = Count(p, q, ")")
            Sel(r) == <<r.block, r.index>>
            open == <<matcher.block, matcher.cursor + 1>>
            closers == {q \in Pos : Even(open, q)}
            close == <<matcher.block, matcher.cursor>>
            openers == {p \in Pos : Even(p, close)}
            Near(p, q) == q[1] - p[1] < RecursionLimit
        IN  /\ matcher.left.ran =>
                /\ matcher.left.found
                     <=> \E q \in closers : Near(open, q) /\ \A r \in closers : ~Before(r, q)
                /\ matcher.left.found =>
                    /\ \A q \in closers : ~Before(q, Sel(matcher.left))
                    /\ Sel(matcher.left) \in closers
                    /\ matchRightParenthesis(D, matcher.left.block, matcher.left.index - 1,
                                             0, RecursionLimit)
                         = [ran |-> TRUE, found |-> TRUE, block |-> open[1],
                            index |-> open[2]]
            /\ matcher.right.ran =>
                /\ matcher.right.found
                     <=> \E p \in openers : Near(p, close) /\ \A r \in openers : ~Before(p, r)
                /\ matcher.right.found =>
                    /\ \A p \in openers : ~Before(Sel(matcher.right), p)
                    /\ Sel(matcher.right) \in openers
                    /\ matchLeftParenthesis(D, matcher.right.block, matcher.right.index + 1,
                                            0, RecursionLimit)
                         = [ran |-> TRUE, found |-> TRUE, block |-> close[1],
                            index |-> close[2]]

\* A forward search that went on into a later block, passed a closing symbol
\* of a nested pair there and selected the closing symbol after it.
C39_Witness ==
    /\ matcher.op = "matchParentheses"
    /\ matcher.left.found
    /\ matcher.left.block > matcher.block
    /\ \E j \in 1..(matcher.left.index - 1) : matcher.blocks[matcher.left.block][j] = ")"

====
